---- MODULE Spec2Model ----
(***************************************************************************)
(* FilePatcher (src/src/file-patcher.ts, the current class at lines        *)
(* 247-534) as a state machine over one MetadataFile (Spec), the run of    *)
(* main (src/main.ts) from the generation of the values to the pull        *)
(* request, with RepositoryManager.findMetadataFiles (MainSpec), the       *)
(* URL handling of PRManager (src/src/pr-manager.ts, PrSpec) and           *)
(* FlathubAPI.getRepositoryUrl (src/unnamed/part_000, ApiSpec).            *)
(*                                                                         *)
(* Text is a sequence of tokens.  A token is one character of interest     *)
(* ("\n", " ", "$", "&", ";", "1", ...), one tag ("<summary>",             *)
(* "</component>", ...; "<component>" and "<p>" stand for the tag with any *)
(* attributes), one desktop key ("Keywords=", "[Desktop Entry]") or one    *)
(* word of plain text.  The concatenation of the tokens is the text; the   *)
(* regular expressions of the source only ever look at whole tokens.       *)
(***************************************************************************)
EXTENDS Integers, Sequences, FiniteSets, TLC

VARIABLES file, log, main, pr, api

vars == <<file, log, main, pr, api>>

\* ------------------------------------------------------------------ bounds

\* A document of Init is a concatenation of at most MaxSegs segments.
MaxSegs == 2

\* At most MaxPatches patch calls are made on one file.
MaxPatches == 2

\* ------------------------------------------------------------------ tokens

NL == "\n"
SP == " "

IsSpace(t) == t \in {NL, SP}

Min(S) == CHOOSE x \in S : \A y \in S : x <= y

Max(S) == CHOOSE x \in S : \A y \in S : x >= y

\* The tokens of s from index a to index b (empty when a > b).
Slice(s, a, b) == IF a > b THEN <<>> ELSE SubSeq(s, a, b)

RECURSIVE Flatten(_)
Flatten(ss) ==
  IF ss = <<>> THEN <<>>
  ELSE IF Len(ss) = 1 THEN ss[1]
  ELSE LET h == Len(ss) \div 2 IN
       Flatten(SubSeq(ss, 1, h)) \o Flatten(SubSeq(ss, h + 1, Len(ss)))

\* Array.prototype.join: the parts with sep between them.
RECURSIVE Join(_, _)
Join(parts, sep) ==
  IF parts = <<>> THEN <<>>
  ELSE IF Len(parts) = 1 THEN Head(parts)
  ELSE Head(parts) \o sep \o Join(Tail(parts), sep)

\* String.prototype.split("\n"): the lines of s, without their line breaks.
RECURSIVE SplitLines(_)
SplitLines(s) ==
  LET brk == {i \in 1..Len(s) : s[i] = NL} IN
  IF brk = {} THEN <<s>>
  ELSE LET i == Min(brk) IN
       <<Slice(s, 1, i - 1)>> \o SplitLines(Slice(s, i + 1, Len(s)))

\* String.prototype.trim: s without its leading and trailing white space.
Trim(s) ==
  LET ink == {i \in 1..Len(s) : ~IsSpace(s[i])} IN
  IF ink = {} THEN <<>> ELSE SubSeq(s, Min(ink), Max(ink))

\* replace(/\s+/g, " "): every run of white space becomes one space.
CollapseSpace(s) ==
  Flatten([i \in 1..Len(s) |->
             IF ~IsSpace(s[i]) THEN <<s[i]>>
             ELSE IF i = 1 \/ ~IsSpace(s[i - 1]) THEN <<SP>>
             ELSE <<>>])

\* String.prototype.toLowerCase on the words of the model that have capitals.
LowerTok(t) ==
  CASE t = "NOTE:" -> "note:"
    [] t = "This" -> "this"
    [] t = "GitHub.com" -> "github.com"
    [] t = "Issues" -> "issues"
    [] t = "A" -> "a"
    [] t = "Q" -> "q"
    [] OTHER -> t

ToLowerCase(s) == [i \in 1..Len(s) |-> LowerTok(s[i])]

\* String.prototype.includes: sub occurs in s as a contiguous run.
Includes(s, sub) ==
  \E i \in 1..(Len(s) - Len(sub) + 1) : SubSeq(s, i, i + Len(sub) - 1) = sub

\* The number of start positions at which sub occurs in s.
Occurrences(s, sub) ==
  Cardinality({i \in 1..(Len(s) - Len(sub) + 1) :
                 SubSeq(s, i, i + Len(sub) - 1) = sub})

CountTok(s, t) == Cardinality({i \in 1..Len(s) : s[i] = t})

\* ------------------------------------------------- regular expressions

\* ^ under the m flag: the start of the text or just after a line break.
LineStart(s, i) == i = 1 \/ s[i - 1] = NL

\* The first index >= i that holds no white space (Len(s) + 1 if none):
\* where a greedy \s* that starts at i stops.
FirstInk(s, i) ==
  LET ink == {j \in i..Len(s) : ~IsSpace(s[j])} IN
  IF ink = {} THEN Len(s) + 1 ELSE Min(ink)

\* The end of the shortest  open ... close  that opens at j (0 if none);
\* a lone tag (open = close) ends where it starts.
CloseOf(s, j, open, close) ==
  IF open = close THEN j
  ELSE LET ks == {k \in (j + 1)..Len(s) : s[k] = close} IN
       IF ks = {} THEN 0 ELSE Min(ks)

\* RegExp.prototype.exec's answer: `at` is where the match starts (0: no
\* match), `tag` where its opening tag is and `end` where it ends.
NoMatch == [at |-> 0, tag |-> 0, end |-> 0]

\* /^\s*<open>[\s\S]*?<close>/m : the leftmost line start from which only
\* white space leads to an opening tag that is closed later on.
LineElem(s, open, close) ==
  LET cands == {i \in 1..Len(s) :
                  /\ LineStart(s, i)
                  /\ LET j == FirstInk(s, i) IN
                     /\ j <= Len(s)
                     /\ s[j] = open
                     /\ CloseOf(s, j, open, close) # 0} IN
  IF cands = {} THEN NoMatch
  ELSE LET i == Min(cands)
           j == FirstInk(s, i) IN
       [at |-> i, tag |-> j, end |-> CloseOf(s, j, open, close)]

\* /<open>[\s\S]*?<close>/ : the leftmost opening tag that is closed later.
AnyElem(s, open, close) ==
  LET cands == {j \in 1..Len(s) :
                  s[j] = open /\ CloseOf(s, j, open, close) # 0} IN
  IF cands = {} THEN NoMatch
  ELSE LET j == Min(cands) IN
       [at |-> j, tag |-> j, end |-> CloseOf(s, j, open, close)]

\* /^Keywords=.*$/m : the leftmost line that starts with Keywords=, up to
\* (not including) its line break.
KeywordsLine(s) ==
  LET cands == {i \in 1..Len(s) : LineStart(s, i) /\ s[i] = "Keywords="} IN
  IF cands = {} THEN NoMatch
  ELSE LET i == Min(cands)
           brk == {k \in i..Len(s) : s[k] = NL} IN
       [at |-> i, tag |-> i,
        end |-> IF brk = {} THEN Len(s) ELSE Min(brk) - 1]

\* The capture groups of a match: none, (element), or (\s*)(element).
Groups(s, m, n) ==
  CASE n = 0 -> <<>>
    [] n = 1 -> <<Slice(s, m.tag, m.end)>>
    [] OTHER -> <<Slice(s, m.at, m.tag - 1), Slice(s, m.tag, m.end)>>

\* The replacement-string expansion of String.prototype.replace: $$ is a
\* dollar, $& the matched text, $` and $' the text before and after the
\* match, $n the n-th capture group when the pattern has one; any other
\* dollar stands for itself.
RECURSIVE GetSubstitution(_, _, _, _)
GetSubstitution(repl, s, m, groups) ==
  LET dollars == {i \in 1..(Len(repl) - 1) : repl[i] = "$"} IN
  IF dollars = {} THEN repl
  ELSE LET i == Min(dollars)
           c == repl[i + 1]
           rest == GetSubstitution(Slice(repl, i + 2, Len(repl)), s, m, groups)
       IN
       Slice(repl, 1, i - 1) \o
         CASE c = "$" -> <<"$">> \o rest
           [] c = "&" -> Slice(s, m.at, m.end) \o rest
           [] c = "`" -> Slice(s, 1, m.at - 1) \o rest
           [] c = "'" -> Slice(s, m.end + 1, Len(s)) \o rest
           [] c = "1" /\ Len(groups) >= 1 -> groups[1] \o rest
           [] c = "2" /\ Len(groups) >= 2 -> groups[2] \o rest
           [] OTHER ->
                <<"$">> \o
                  GetSubstitution(Slice(repl, i + 1, Len(repl)), s, m, groups)

\* content.replace(regex, repl) for a regex without the g flag that matched
\* at m and has n capture groups.
Replace(s, m, n, repl) ==
  Slice(s, 1, m.at - 1)
    \o GetSubstitution(repl, s, m, Groups(s, m, n))
    \o Slice(s, m.end + 1, Len(s))

\* ------------------------------------------------------------ FilePatcher

\* One pass of escapeXml: text.replace(/c/g, entity).
ReplaceAll(text, c, entity) ==
  Flatten([i \in 1..Len(text) |->
             IF text[i] = c THEN entity ELSE <<text[i]>>])

escapeXml(text) ==
  LET a == ReplaceAll(text, "&", <<"&", "amp;">>)
      b == ReplaceAll(a, "<", <<"&", "lt;">>)
      c == ReplaceAll(b, ">", <<"&", "gt;">>)
      d == ReplaceAll(c, "\"", <<"&", "quot;">>) IN
  ReplaceAll(d, "'", <<"&", "apos;">>)

patchDesktopFile(content, keywords) ==
  LET keywordLine == <<"Keywords=">> \o Join(keywords, <<";">>) \o <<";">>
      keywordRegex == KeywordsLine(content) IN
  IF keywordRegex.at # 0
  THEN Replace(content, keywordRegex, 0, keywordLine)
  ELSE LET lines == SplitLines(content)
           found == {i \in 1..Len(lines) :
                       Trim(lines[i]) = <<"[Desktop Entry]">>} IN
       IF found # {}
       THEN LET desktopEntryIndex == Min(found) IN
            Join(SubSeq(lines, 1, desktopEntryIndex)
                   \o <<keywordLine>>
                   \o Slice(lines, desktopEntryIndex + 1, Len(lines)),
                 <<NL>>)
       ELSE content \o <<NL>> \o keywordLine

Indent4 == <<SP, SP, SP, SP>>

\* content.match(/^(\s*)<tag>/m): the white space before the first opening
\* tag that starts its line, or the default of four spaces.
BaseIndent(content, tag) ==
  LET existingMatch == LineElem(content, tag, tag) IN
  IF existingMatch.at # 0
  THEN Slice(content, existingMatch.at, existingMatch.tag - 1)
  ELSE Indent4

patchKeywordsXml(content, keywords) ==
  LET baseIndent == BaseIndent(content, "<keywords>")
      contentIndent == baseIndent \o Indent4
      keywordsXml ==
        Join([i \in 1..Len(keywords) |->
                contentIndent \o <<"<keyword>">> \o escapeXml(keywords[i])
                  \o <<"</keyword>">>],
             <<NL>>)
      keywordsSection ==
        baseIndent \o <<"<keywords>", NL>> \o keywordsXml
          \o <<NL>> \o baseIndent \o <<"</keywords>">>
      keywordsRegex == LineElem(content, "<keywords>", "</keywords>")
      componentEndRegex == LineElem(content, "</component>", "</component>") IN
  IF keywordsRegex.at # 0
  THEN Replace(content, keywordsRegex, 0, keywordsSection)
  ELSE IF componentEndRegex.at # 0
       THEN Replace(content, componentEndRegex, 2,
                    keywordsSection \o <<NL, "$", "1", "$", "2">>)
       ELSE content \o <<NL>> \o keywordsSection

patchSummaryXml(content, summary) ==
  LET escapedSummary == escapeXml(summary)
      baseIndent == BaseIndent(content, "<summary>")
      summaryTag ==
        baseIndent \o <<"<summary>">> \o escapedSummary \o <<"</summary>">>
      summaryRegex == LineElem(content, "<summary>", "</summary>")
      nameRegex == LineElem(content, "<name>", "</name>")
      componentStartRegex == LineElem(content, "<component>", "<component>")
      after == <<"$", "1", "$", "2", NL>> \o summaryTag IN
  IF summaryRegex.at # 0
  THEN Replace(content, summaryRegex, 0, summaryTag)
  ELSE IF nameRegex.at # 0
       THEN Replace(content, nameRegex, 2, after)
       ELSE IF componentStartRegex.at # 0
            THEN Replace(content, componentStartRegex, 2, after)
            ELSE summaryTag \o <<NL>> \o content

\* existingDescriptionBlock.match(/<p(?:\s[^>]*)?>[\s\S]*?<\/p>/gi): the
\* paragraphs of the block, left to right, none overlapping another.
RECURSIVE Paragraphs(_)
Paragraphs(block) ==
  LET m == AnyElem(block, "<p>", "</p>") IN
  IF m.at = 0 THEN <<>>
  ELSE <<SubSeq(block, m.at, m.end)>>
         \o Paragraphs(Slice(block, m.end + 1, Len(block)))

\* /NOTE:\s*This\s+application/i.test(p)
IsDisclaimer(p) ==
  \E a \in 1..Len(p) :
    /\ LowerTok(p[a]) = "note:"
    /\ LET b == FirstInk(p, a + 1) IN
       /\ b <= Len(p)
       /\ LowerTok(p[b]) = "this"
       /\ b + 1 <= Len(p)
       /\ IsSpace(p[b + 1])
       /\ LET c == FirstInk(p, b + 1) IN
          c <= Len(p) /\ LowerTok(p[c]) = "application"

\* p.replace(/<\/?p(?:\s[^>]*)?>?/gi, "").replace(/\s+/g, " ").trim()
TextContent(p) ==
  Trim(CollapseSpace(SelectSeq(p, LAMBDA t : t \notin {"<p>", "</p>"})))

\* Array.from(new Set(blocks)): the first occurrence of each, in order.
RECURSIVE Dedupe(_)
Dedupe(blocks) ==
  IF blocks = <<>> THEN <<>>
  ELSE LET front == Dedupe(SubSeq(blocks, 1, Len(blocks) - 1))
           last == blocks[Len(blocks)] IN
       IF \E i \in 1..Len(front) : front[i] = last
       THEN front ELSE Append(front, last)

\* The disclaimer paragraphs of the first <description> block of content.
DisclaimerBlocks(content) ==
  LET descriptionRegexCapture ==
        AnyElem(content, "<description>", "</description>") IN
  IF descriptionRegexCapture.at = 0 THEN <<>>
  ELSE LET existingDescriptionBlock ==
             SubSeq(content, descriptionRegexCapture.at,
                    descriptionRegexCapture.end)
           paragraphs == Paragraphs(existingDescriptionBlock)
           notes == SelectSeq(paragraphs, IsDisclaimer) IN
       Dedupe([i \in 1..Len(notes) |-> TextContent(notes[i])])

\* description.split("\n").map(trim + indent).filter(nonempty).join("\n")
IndentLines(description, contentIndent) ==
  LET lines == SplitLines(description)
      kept == SelectSeq([i \in 1..Len(lines) |-> Trim(lines[i])],
                        LAMBDA l : l # <<>>) IN
  Join([i \in 1..Len(kept) |-> contentIndent \o kept[i]], <<NL>>)

\* The loop that appends every disclaimer the new text does not hold yet.
RECURSIVE AppendDisclaimers(_, _, _)
AppendDisclaimers(indentedDescription, blocks, contentIndent) ==
  IF blocks = <<>> THEN indentedDescription
  ELSE LET block == Head(blocks)
           normalizedBlock == ToLowerCase(CollapseSpace(block))
           normalizedDesc == ToLowerCase(CollapseSpace(indentedDescription))
           disclaimerParagraph ==
             contentIndent \o <<"<p>", NL>> \o contentIndent \o <<SP, SP>>
               \o block \o <<NL>> \o contentIndent \o <<"</p>">> IN
       AppendDisclaimers(
         IF Includes(normalizedDesc, normalizedBlock)
         THEN indentedDescription
         ELSE indentedDescription \o <<NL>> \o disclaimerParagraph,
         Tail(blocks), contentIndent)

patchDescriptionXml(content, description) ==
  LET baseIndent == BaseIndent(content, "<description>")
      contentIndent == baseIndent \o Indent4
      disclaimerBlocks == DisclaimerBlocks(content)
      indentedDescription ==
        AppendDisclaimers(IndentLines(description, contentIndent),
                          disclaimerBlocks, contentIndent)
      descriptionSection ==
        baseIndent \o <<"<description>", NL>> \o indentedDescription
          \o <<NL>> \o baseIndent \o <<"</description>">>
      descriptionRegex == LineElem(content, "<description>", "</description>")
      summaryRegex == AnyElem(content, "<summary>", "</summary>")
      nameRegex == AnyElem(content, "<name>", "</name>")
      componentEndRegex == AnyElem(content, "</component>", "</component>")
      after == <<"$", "1", NL>> \o descriptionSection IN
  IF descriptionRegex.at # 0
  THEN Replace(content, descriptionRegex, 0, descriptionSection)
  ELSE IF summaryRegex.at # 0
       THEN Replace(content, summaryRegex, 1, after)
       ELSE IF nameRegex.at # 0
            THEN Replace(content, nameRegex, 1, after)
            ELSE IF componentEndRegex.at # 0
                 THEN Replace(content, componentEndRegex, 1,
                              descriptionSection \o <<NL, "$", "1">>)
                 ELSE content \o <<NL>> \o descriptionSection

patchKeywords(f, keywords) ==
  IF f.type = "desktop"
  THEN patchDesktopFile(f.content, keywords)
  ELSE patchKeywordsXml(f.content, keywords)

\* patchSummary without its desktop guard.
patchSummary_NoSkip(f, summary) == patchSummaryXml(f.content, summary)

patchSummary(f, summary) ==
  IF f.type = "desktop" THEN f.content
  ELSE patchSummaryXml(f.content, summary)

patchDescription(f, description) ==
  IF f.type = "desktop" THEN f.content
  ELSE patchDescriptionXml(f.content, description)

\* ------------------------------------------------------------------ inputs

\* The pieces a component (XML) document of Init is made of.
XmlSegments ==
  { <<"<component>">>,
    <<"</component>">>,
    <<"<name>", "x", "</name>">>,
    <<"<summary>", "old", "</summary>">>,
    <<"<keywords>", "<keyword>", "old", "</keyword>", "</keywords>">>,
    <<"<description>", "<p>", "old", "</p>", "</description>">>,
    <<"<description>", "<p>", "NOTE:", SP, "This", NL, SP, "application",
      "</p>", "</description>">>,
    <<NL>>,
    <<SP>> }

\* The pieces a desktop document of Init is made of.
DesktopSegments ==
  { <<"[Desktop Entry]">>,
    <<"Keywords=", "old", ";">>,
    <<"Name=x">>,
    <<NL>>,
    <<SP>> }

\* Every concatenation of at most n segments.
RECURSIVE Documents(_, _)
Documents(segs, n) ==
  IF n = 0 THEN {<<>>}
  ELSE LET shorter == Documents(segs, n - 1) IN
       shorter \cup {d \o g : d \in shorter, g \in segs}

KeywordsValues == { << <<"k1">>, <<"k2">> >>, << <<"$", "&">> >> }

SummaryValues == { <<"s1">>, <<"$", "&">> }

DescriptionValues ==
  { <<"<p>", NL, SP, "d1", NL, "</p>">>,
    <<"<p>", "$", "&", "amp;", "</p>">>,
    <<"plain", SP, "text">> }

\* ------------------------------------------------------------ state machine

\* No run of main and no PRManager call is in progress.
NoMain == [pc |-> "none"]

NoPr == [pc |-> "none"]

NoApi == [pc |-> "none"]

\* A MetadataFile as findMetadataFiles returns it; log is the list of the
\* patch calls made on it so far, each with the content it was given.
Init ==
  /\ \E type \in {"desktop", "metainfo"} :
       \E content \in (IF type = "desktop"
                       THEN Documents(DesktopSegments, MaxSegs)
                       ELSE Documents(XmlSegments, MaxSegs)) :
         file = [type |-> type, content |-> content]
  /\ log = <<>>
  /\ main = NoMain
  /\ pr = NoPr
  /\ api = NoApi

Call(field, value) ==
  [field |-> field, value |-> value, before |-> file.content]

PatchKeywords(keywords) ==
  /\ Len(log) < MaxPatches
  /\ file' = [file EXCEPT !.content = patchKeywords(file, keywords)]
  /\ log' = Append(log, Call("keywords", keywords))
  /\ UNCHANGED <<main, pr, api>>

PatchSummary(summary) ==
  /\ Len(log) < MaxPatches
  /\ file' = [file EXCEPT !.content = patchSummary(file, summary)]
  /\ log' = Append(log, Call("summary", summary))
  /\ UNCHANGED <<main, pr, api>>

PatchDescription(description) ==
  /\ Len(log) < MaxPatches
  /\ file' = [file EXCEPT !.content = patchDescription(file, description)]
  /\ log' = Append(log, Call("description", description))
  /\ UNCHANGED <<main, pr, api>>

Next ==
  \/ \E keywords \in KeywordsValues : PatchKeywords(keywords)
  \/ \E summary \in SummaryValues : PatchSummary(summary)
  \/ \E description \in DescriptionValues : PatchDescription(description)

Spec == Init /\ [][Next]_vars

\* ------------------------------------------------------ RepositoryManager

\* The application id of the run and appId.split(".").pop().toLowerCase().
AppId == "org.x.App"

AppName == "app"

\* A path is a sequence of tokens: "/" , the words of the names and the
\* suffixes ".desktop", ".metainfo.xml", ".appdata.xml", ".in", ".d".
Suffixes ==
  << <<".desktop">>, <<".desktop", ".in">>,
     <<".metainfo.xml">>, <<".metainfo.xml", ".in">>,
     <<".appdata.xml">>, <<".appdata.xml", ".in">> >>

\* The 18 -name patterns, in the order of the source: the six suffixes after
\* the app id, after the app name and after "*".
patterns ==
  [k \in 1..18 |->
     [stem |-> <<AppId, AppName, "*">>[((k - 1) \div 6) + 1],
      suffix |-> Suffixes[((k - 1) % 6) + 1]]]

\* String.prototype.endsWith.
EndsWith(s, suffix) ==
  /\ Len(suffix) <= Len(s)
  /\ SubSeq(s, Len(s) - Len(suffix) + 1, Len(s)) = suffix

\* The file name of a path: what follows its last "/".
Basename(path) ==
  LET slashes == {i \in 1..Len(path) : path[i] = "/"} IN
  IF slashes = {} THEN path ELSE Slice(path, Max(slashes) + 1, Len(path))

\* find -name pattern: the pattern is matched against the file name.
Matches(path, pattern) ==
  IF pattern.stem = "*" THEN EndsWith(Basename(path), pattern.suffix)
  ELSE Basename(path) = <<pattern.stem>> \o pattern.suffix

\* The type and the template flag findMetadataFiles gives to a path.
TypeOf(path) ==
  IF Includes(path, <<".metainfo.xml">>) THEN "metainfo"
  ELSE IF Includes(path, <<".appdata.xml">>) THEN "appdata"
  ELSE "desktop"

IsTemplate(path) == EndsWith(path, <<".in">>)

\* The paths of a list of MetadataFile.
PathsOf(files) == {files[i].path : i \in 1..Len(files)}

\* One round of the pattern loop: the paths find prints for the pattern, in
\* the order of the listing, each read and pushed unless already found.
FindPattern(files, listing, disk, pattern) ==
  LET fresh == SelectSeq(listing,
                 LAMBDA path : Matches(path, pattern)
                               /\ path \notin PathsOf(files)) IN
  files \o [i \in 1..Len(fresh) |->
              [path |-> fresh[i], type |-> TypeOf(fresh[i]),
               content |-> disk[fresh[i]],
               isTemplate |-> IsTemplate(fresh[i])]]

\* findMetadataFiles over the files of the repository (listing, in the
\* order find visits them) and their contents (disk).
RECURSIVE FindFrom(_, _, _, _)
FindFrom(k, files, listing, disk) ==
  IF k > Len(patterns) THEN files
  ELSE FindFrom(k + 1, FindPattern(files, listing, disk, patterns[k]),
                listing, disk)

findMetadataFiles(listing, disk) == FindFrom(1, <<>>, listing, disk)

\* -------------------------------------------------------------- FlathubAPI

\* A value that may be missing (undefined or null in the source).
Null == [null |-> TRUE, value |-> <<>>]

Some(value) == [null |-> FALSE, value |-> value]

\* The truthiness of an optional string: neither missing nor empty.
Truthy(opt) == ~opt.null /\ opt.value # <<>>

\* The hosting sites getRepositoryUrl looks for in a lower-cased URL.
HostingSites ==
  { <<"github.com">>, <<"gitlab", ".com">>, <<"codeberg.org">>,
    <<"bitbucket.org">>, <<"git.sr.ht">> }

IncludesHostingSite(url) == \E site \in HostingSites : Includes(url, site)

\* The tokens of the model that begin with issues, bugs or tracker in any
\* case, as (issues|bugs|tracker) with the flag i asks.
TrackerWord(t) ==
  t \in {"issues", "Issues", "bugs", "tracker", "bugsnag", "tracker-app"}

\* bugtracker.replace(/\/(issues|bugs|tracker).*$/i, ""): the URL is cut at
\* the first "/" that such a word follows.
StripTracker(url) ==
  LET at == {i \in 1..(Len(url) - 1) : url[i] = "/" /\ TrackerWord(url[i + 1])}
  IN IF at = {} THEN url ELSE Slice(url, 1, Min(at) - 1)

getRepositoryUrl(appstream) ==
  IF appstream.urls.null THEN Null
  ELSE LET urls == appstream.urls.value IN
       IF Truthy(urls.vcs_browser) THEN urls.vcs_browser
       ELSE IF /\ Truthy(urls.homepage)
               /\ IncludesHostingSite(ToLowerCase(urls.homepage.value))
       THEN urls.homepage
       ELSE IF /\ Truthy(urls.bugtracker)
               /\ IncludesHostingSite(ToLowerCase(urls.bugtracker.value))
       THEN Some(StripTracker(urls.bugtracker.value))
       ELSE Null

getFlathubRepoUrl(appId) ==
  <<"https://", "github.com", "/", "flathub", "/", appId>>

\* The URLs an appstream record can carry.
TestRepo == <<"https://", "github.com", "/", "test", "/", "repo">>

VcsBrowsers == {Null, Some(<<>>), Some(TestRepo)}

Homepages ==
  { Null, Some(TestRepo), Some(<<"https://", "example.org">>),
    Some(<<"https://", "GitHub.com", "/", "test", "/", "home">>),
    Some(<<"https://", "gitlab", ".com", "/", "test", "/", "home">>) }

Bugtrackers ==
  { Null, Some(TestRepo),
    Some(TestRepo \o <<"/", "issues">>),
    Some(TestRepo \o <<"/", "issues", "/", "new">>),
    Some(<<"https://", "codeberg.org", "/", "test", "/", "repo", "/",
           "Issues">>),
    Some(<<"https://", "gitlab", ".com", "/", "test", "/", "repo", "/", "-",
           "/", "issues">>),
    Some(<<"https://", "github.com", "/", "bugsnag", "/", "repo", "/",
           "issues">>),
    Some(<<"https://", "github.com", "/", "test", "/", "tracker-app", "/",
           "issues">>),
    Some(<<"https://", "example.org", "/", "issues">>) }

Appstreams ==
  {[urls |-> Null]}
    \cup {[urls |-> Some([vcs_browser |-> v, homepage |-> h,
                          bugtracker |-> b])] :
            v \in VcsBrowsers, h \in Homepages, b \in Bugtrackers}

\* A FlathubAPI on which getRepositoryUrl was not called yet.
ApiInit ==
  /\ api = [pc |-> "ready", appstream |-> [urls |-> Null], result |-> Null]
  /\ file = [type |-> "desktop", content |-> <<>>]
  /\ log = <<>>
  /\ main = NoMain
  /\ pr = NoPr

GetRepositoryUrl ==
  /\ api.pc = "ready"
  /\ \E appstream \in Appstreams :
       api' = [pc |-> "returned", appstream |-> appstream,
               result |-> getRepositoryUrl(appstream)]
  /\ UNCHANGED <<file, log, main, pr>>

ApiNext == GetRepositoryUrl

ApiSpec == ApiInit /\ [][ApiNext]_vars

\* -------------------------------------------------------------------- main

\* At most MaxGenerations regenerations are asked for in one review loop.
MaxGenerations == 1

Modes == {"all", "keywords", "summary", "description"}

\* What the user can type at a prompt: null is the end of the input.
Answers ==
  {Null}
    \cup {Some(t) : t \in {<<"A">>, <<"accept">>, <<"r">>, <<"s">>, <<"Q">>,
                           <<"quit">>, <<>>}}

\* promptForValue that takes an invalid input for a skip.
promptForValue_InvalidSkips(response) ==
  IF response.null \/ ToLowerCase(response.value) = <<"q">> THEN "quit"
  ELSE LET normalized == ToLowerCase(response.value) IN
       IF normalized \in {<<"a">>, <<"accept">>} THEN "accept"
       ELSE IF normalized \in {<<"r">>, <<"regenerate">>} THEN "regenerate"
       ELSE "skip"

\* The decision promptForValue returns for a response; "quit" stands for
\* Deno.exit(0) inside it.
promptForValue(response) ==
  IF response.null \/ ToLowerCase(response.value) = <<"q">> THEN "quit"
  ELSE LET normalized == ToLowerCase(response.value) IN
       IF normalized \in {<<"a">>, <<"accept">>} THEN "accept"
       ELSE IF normalized \in {<<"r">>, <<"regenerate">>} THEN "regenerate"
       ELSE IF normalized \in {<<"s">>, <<"skip">>} THEN "skip"
       ELSE "regenerate"

\* The appstream data of the app, as far as getRepositoryUrl reads it.
MainAppstreams ==
  { [urls |-> Null],
    [urls |-> Some([vcs_browser |-> Some(<<>>),
                    homepage |-> Some(<<"https://", "gitlab", ".com", "/",
                                        "test", "/", "home">>),
                    bugtracker |-> Null])] }

\* The login api.github.com answers getGitHubUser with: the owner of the
\* Flathub repositories or another user.
UserLogins == {<<"flathub">>, <<"test">>}

\* pushWithRetries(remote, maxAttempts = 5).
maxAttempts == 5

\* A call on a repository or a forge and whether it succeeded: the clone
\* path for git, the URL for clones and the forge.
Op(op, repoPath, repoUrl, remote, branchName, ok) ==
  [op |-> op, repoPath |-> repoPath, repoUrl |-> repoUrl, remote |-> remote,
   branchName |-> branchName, ok |-> ok]

\* What generateKeywords can return: a list of keywords, possibly empty.
GeneratedKeywords == KeywordsValues \cup {<<>>}

\* What generateDescription returns: text marked up in paragraphs.
GeneratedDescriptions ==
  {description \in DescriptionValues : Includes(description, <<"<p>">>)}

\* Files of a cloned repository, relative to its root.
DesktopRel == <<AppId, ".desktop">>

MetainfoRel == <<"data", "/", AppId, ".metainfo.xml", ".in">>

AppdataRel == <<AppName, ".appdata.xml">>

NestedRel == <<"d", ".metainfo.xml", ".d", "/", "other", ".desktop">>

ReadmeRel == <<"README">>

\* The listings find can print for a cloned repository.
Trees ==
  { <<ReadmeRel>>,
    <<ReadmeRel, DesktopRel>>,
    <<MetainfoRel, DesktopRel>>,
    <<AppdataRel>>,
    <<NestedRel>> }

DesktopContent == <<"[Desktop Entry]", NL, "Name=x", NL>>

XmlContent ==
  <<"<component>", NL, SP, SP, "<name>", "App", "</name>", NL,
    "</component>", NL>>

\* The content of a file of a cloned repository.
ContentOf(rel) ==
  IF EndsWith(rel, <<".desktop">>) THEN DesktopContent
  ELSE IF rel = ReadmeRel THEN <<"readme", NL>>
  ELSE XmlContent

\* The clone of a tree under root: its listing and its files.
Listing(root, tree) == [i \in 1..Len(tree) |-> <<root, "/">> \o tree[i]]

Clone(root, tree) ==
  [path \in {Listing(root, tree)[i] : i \in 1..Len(tree)} |->
     ContentOf(Slice(path, 3, Len(path)))]

\* main after its arguments are parsed: nothing generated, nothing accepted,
\* nothing cloned.
MainStart(mode) ==
  [pc |-> "keywords", mode |-> mode, gen |-> 0,
   keywords |-> <<>>, summary |-> <<>>, description |-> <<>>,
   acceptedMetadata |->
     [keywords |-> FALSE, summary |-> FALSE, description |-> FALSE],
   disk |-> <<>>, metadataFiles |-> <<>>, repoPath |-> "",
   i |-> 0, step |-> "", patchedContent |-> <<>>, hasChanges |-> FALSE,
   calls |-> <<>>, console |-> <<>>, writes |-> <<>>,
   GITHUB_TOKEN |-> FALSE, GITLAB_TOKEN |-> FALSE,
   generated |-> [keywords |-> <<>>, summary |-> <<>>, description |-> <<>>],
   response |-> Null,
   repoUrl |-> <<>>, branchName |-> <<>>, userLogin |-> <<>>,
   forkOwner |-> <<>>, remote |-> "", attempt |-> 0, headOverride |-> <<>>,
   ops |-> <<>>]

\* The tokens are read from the environment when the module is loaded.
MainInit ==
  /\ \E mode \in Modes, github \in BOOLEAN, gitlab \in BOOLEAN :
       main = [MainStart(mode) EXCEPT !.GITHUB_TOKEN = github,
                                      !.GITLAB_TOKEN = gitlab]
  /\ file = [type |-> "desktop", content |-> <<>>]
  /\ log = <<>>
  /\ pr = NoPr
  /\ api = NoApi

\* The end of one round of a review loop: the generated value is kept and
\* the answer to promptForValue decides (q leaves the process at once).
\* generated and response record what the round generated and what the
\* user answered.
Review(field, value, response, next) ==
  LET m == [main EXCEPT ![field] = value, !.generated[field] = value,
                        !.response = response]
      decision == promptForValue(response) IN
  CASE decision = "quit" -> [m EXCEPT !.pc = "exit0"]
    [] decision = "accept" ->
         [m EXCEPT !.acceptedMetadata[field] = TRUE, !.pc = next, !.gen = 0]
    [] decision = "skip" -> [m EXCEPT !.pc = next, !.gen = 0]
    [] OTHER -> [m EXCEPT !.gen = @ + 1]

MainFrame == UNCHANGED <<file, log, pr, api>>

\* The keywords loop without its test of keywords.length.
GenerateKeywords_NoCheck(generated, response) ==
  /\ main.pc = "keywords"
  /\ promptForValue(response) = "regenerate" => main.gen < MaxGenerations
  /\ main' =
       IF main.mode \notin {"all", "keywords"}
       THEN [main EXCEPT !.pc = "summary"]
       ELSE Review("keywords", generated, response, "summary")
  /\ MainFrame

\* One round of the keywords loop (or no round when the mode has none).
GenerateKeywords(generated, response) ==
  /\ main.pc = "keywords"
  /\ promptForValue(response) = "regenerate" => main.gen < MaxGenerations
  /\ main' =
       IF main.mode \notin {"all", "keywords"}
       THEN [main EXCEPT !.pc = "summary"]
       ELSE IF Len(generated) = 0
       THEN [main EXCEPT !.keywords = generated, !.pc = "exit1"]
       ELSE Review("keywords", generated, response, "summary")
  /\ MainFrame

GenerateSummary(generated, response) ==
  /\ main.pc = "summary"
  /\ promptForValue(response) = "regenerate" => main.gen < MaxGenerations
  /\ main' =
       IF main.mode \notin {"all", "summary"}
       THEN [main EXCEPT !.pc = "description"]
       ELSE Review("summary", generated, response, "description")
  /\ MainFrame

GenerateDescription(generated, response) ==
  /\ main.pc = "description"
  /\ promptForValue(response) = "regenerate" => main.gen < MaxGenerations
  /\ main' =
       IF main.mode \notin {"all", "description"}
       THEN [main EXCEPT !.pc = "accepted"]
       ELSE Review("description", generated, response, "accepted")
  /\ MainFrame

\* main without its check that some metadata was accepted.
CheckAccepted_NoExit ==
  /\ main.pc = "accepted"
  /\ main' = [main EXCEPT !.pc = "flathub", !.response = Null]
  /\ MainFrame

\* "Check if any metadata was accepted".
CheckAccepted ==
  /\ main.pc = "accepted"
  /\ main' =
       IF /\ ~main.acceptedMetadata.keywords
          /\ ~main.acceptedMetadata.summary
          /\ ~main.acceptedMetadata.description
       THEN [main EXCEPT !.pc = "exit0"]
       ELSE [main EXCEPT !.pc = "flathub", !.response = Null]
  /\ MainFrame

\* The head of the patch loop for the i-th file, or its end.
Enter(m, i) ==
  IF i > Len(m.metadataFiles) THEN [m EXCEPT !.i = i, !.pc = "done"]
  ELSE [m EXCEPT !.pc = "patch", !.i = i, !.step = "keywords",
                 !.patchedContent = m.metadataFiles[i].content,
                 !.hasChanges = FALSE]

\* Step 3: the Flathub repository is cloned and searched; a clone that
\* fails is caught and, like a clone without metadata files, leaves the
\* upstream repository to be tried.
CloneFlathub(failed, tree) ==
  /\ main.pc = "flathub"
  /\ LET flathubRepoUrl == getFlathubRepoUrl(AppId)
         tried == [main EXCEPT
                     !.ops = Append(@, Op("cloneRepository", "flathub",
                                          flathubRepoUrl, "", <<>>,
                                          ~failed))] IN
     main' =
       IF failed THEN [tried EXCEPT !.pc = "upstream"]
       ELSE LET disk == Clone("flathub", tree) @@ main.disk
                files == findMetadataFiles(Listing("flathub", tree), disk)
            IN
            IF Len(files) > 0
            THEN Enter([tried EXCEPT !.disk = disk, !.metadataFiles = files,
                                     !.repoPath = "flathub",
                                     !.repoUrl = flathubRepoUrl], 1)
            ELSE [tried EXCEPT !.disk = disk, !.pc = "upstream"]
  /\ MainFrame

\* Step 4 that keeps the URL of the Flathub try.
CloneUpstream_KeepsUrl(appstream, tree) ==
  /\ main.pc = "upstream"
  /\ LET upstreamRepoUrl == getRepositoryUrl(appstream) IN
     main' =
       IF ~Truthy(upstreamRepoUrl) THEN [main EXCEPT !.pc = "exit1"]
       ELSE LET disk == Clone("upstream", tree) @@ main.disk
                files == findMetadataFiles(Listing("upstream", tree), disk)
                cloned == [main EXCEPT
                             !.disk = disk,
                             !.ops = Append(@, Op("cloneRepository",
                                                  "upstream",
                                                  upstreamRepoUrl.value, "",
                                                  <<>>, TRUE))]
            IN
            IF Len(files) = 0
            THEN [cloned EXCEPT !.pc = "exit1"]
            ELSE Enter([cloned EXCEPT !.metadataFiles = files,
                                      !.repoPath = "upstream",
                                      !.repoUrl = getFlathubRepoUrl(AppId)],
                       1)
  /\ MainFrame

\* Step 4: the upstream repository, when the appstream data names one.
CloneUpstream(appstream, tree) ==
  /\ main.pc = "upstream"
  /\ LET upstreamRepoUrl == getRepositoryUrl(appstream) IN
     main' =
       IF ~Truthy(upstreamRepoUrl) THEN [main EXCEPT !.pc = "exit1"]
       ELSE LET disk == Clone("upstream", tree) @@ main.disk
                files == findMetadataFiles(Listing("upstream", tree), disk)
                cloned == [main EXCEPT
                             !.disk = disk,
                             !.ops = Append(@, Op("cloneRepository",
                                                  "upstream",
                                                  upstreamRepoUrl.value, "",
                                                  <<>>, TRUE))]
            IN
            IF Len(files) = 0
            THEN [cloned EXCEPT !.pc = "exit1"]
            ELSE Enter([cloned EXCEPT !.metadataFiles = files,
                                      !.repoPath = "upstream",
                                      !.repoUrl = upstreamRepoUrl.value], 1)
  /\ MainFrame

\* "Check if we have appstream XML files".
hasAppstreamFiles(files) ==
  \E k \in 1..Len(files) : files[k].type \in {"metainfo", "appdata"}

\* A line of the console about a file, and a call of the patcher as the
\* patcher sees it: the file object it is given, the value and the result.
Line(text, field, path) == [text |-> text, field |-> field, path |-> path]

PatchCall(field, f, value, result) ==
  [field |-> field, file |-> f, value |-> value, result |-> result]

\* The keywords step of the loop body for the current file.
StepKeywords ==
  /\ main.pc = "patch" /\ main.step = "keywords"
  /\ LET f == main.metadataFiles[main.i]
         result == patchKeywords(f, main.keywords) IN
     main' =
       IF ~main.acceptedMetadata.keywords
       THEN [main EXCEPT !.step = "summary"]
       ELSE IF f.type = "desktop" /\ hasAppstreamFiles(main.metadataFiles)
       THEN [main EXCEPT
               !.step = "summary",
               !.console = Append(@, Line("Skipped", "keywords", f.path))]
       ELSE [main EXCEPT
               !.step = "summary",
               !.patchedContent = result,
               !.hasChanges = TRUE,
               !.calls = Append(@, PatchCall("keywords", f, main.keywords,
                                             result)),
               !.console = Append(@, Line("Applied", "keywords", f.path))]
  /\ MainFrame

\* The summary step: the file is passed with the content patched so far.
StepSummary ==
  /\ main.pc = "patch" /\ main.step = "summary"
  /\ LET f == main.metadataFiles[main.i]
         tempFile == [f EXCEPT !.content = main.patchedContent]
         result == patchSummary(tempFile, main.summary) IN
     main' =
       IF ~main.acceptedMetadata.summary
       THEN [main EXCEPT !.step = "description"]
       ELSE [main EXCEPT
               !.step = "description",
               !.patchedContent = result,
               !.hasChanges = TRUE,
               !.calls = Append(@, PatchCall("summary", tempFile,
                                             main.summary, result)),
               !.console = Append(@, Line("Applied", "summary", f.path))]
  /\ MainFrame

StepDescription ==
  /\ main.pc = "patch" /\ main.step = "description"
  /\ LET f == main.metadataFiles[main.i]
         tempFile == [f EXCEPT !.content = main.patchedContent]
         result == patchDescription(tempFile, main.description) IN
     main' =
       IF ~main.acceptedMetadata.description
       THEN [main EXCEPT !.step = "write"]
       ELSE [main EXCEPT
               !.step = "write",
               !.patchedContent = result,
               !.hasChanges = TRUE,
               !.calls = Append(@, PatchCall("description", tempFile,
                                             main.description, result)),
               !.console = Append(@, Line("Applied", "description", f.path))]
  /\ MainFrame

\* The end of the loop body: the file is written when a patch was applied,
\* and the loop goes on to the next file.
StepWrite ==
  /\ main.pc = "patch" /\ main.step = "write"
  /\ LET f == main.metadataFiles[main.i] IN
     main' =
       IF main.hasChanges
       THEN Enter([main EXCEPT
                     !.disk = [@ EXCEPT ![f.path] = main.patchedContent],
                     !.writes = Append(@, [path |-> f.path,
                                           content |-> main.patchedContent]),
                     !.console = Append(@, Line("Patched", "", f.path))],
                  main.i + 1)
       ELSE Enter([main EXCEPT
                     !.console = Append(@, Line("Skipped", "", f.path))],
                  main.i + 1)
  /\ MainFrame

\* --------------------------------------------------------------- PRManager

\* A repository URL is a sequence of tokens: the scheme "https://", the
\* words of the host name, "/" and the words of the path segments, of which
\* ".git" is one.  A path of RepoUrls has at most MaxPathParts segments.
MaxPathParts == 3

\* What a function returns, or the message of the Error it throws.
Ok(value) == [ok |-> TRUE, value |-> value, error |-> ""]

Err(message) == [ok |-> FALSE, value |-> <<>>, error |-> message]

\* String.prototype.split(sep): the pieces of s between the separators.
RECURSIVE Split(_, _)
Split(s, sep) ==
  LET at == {i \in 1..Len(s) : s[i] = sep} IN
  IF at = {} THEN <<s>>
  ELSE <<Slice(s, 1, Min(at) - 1)>>
         \o Split(Slice(s, Min(at) + 1, Len(s)), sep)

\* new URL(repoUrl): throws without a scheme or a host; the host name is
\* lower-cased and the path starts at the first "/" after the host.
LowerHost(t) == IF t = "GitHub.com" THEN "github.com" ELSE t

ParseURL(repoUrl) ==
  IF repoUrl = <<>> \/ Head(repoUrl) # "https://" THEN Err("Invalid URL")
  ELSE LET rest == Tail(repoUrl)
           slashes == {i \in 1..Len(rest) : rest[i] = "/"}
           host == IF slashes = {} THEN rest
                   ELSE Slice(rest, 1, Min(slashes) - 1) IN
       IF host = <<>> THEN Err("Invalid URL")
       ELSE Ok([hostname |-> [i \in 1..Len(host) |-> LowerHost(host[i])],
                pathname |-> IF slashes = {} THEN <<"/">>
                             ELSE Slice(rest, Min(slashes), Len(rest))])

\* part.replace(/\.git$/, "").
StripGit(part) ==
  IF part # <<>> /\ part[Len(part)] = ".git"
  THEN Slice(part, 1, Len(part) - 1)
  ELSE part

\* pathname.split("/").filter(Boolean).map(part => part.replace(...)).
PathParts(pathname) ==
  LET kept == SelectSeq(Split(pathname, "/"), LAMBDA part : part # <<>>) IN
  [i \in 1..Len(kept) |-> StripGit(kept[i])]

\* parseRepoUrl with a platform test that knows gitlab host names only.
parseRepoUrl_NoKde(repoUrl) ==
  LET url == ParseURL(repoUrl) IN
  IF ~url.ok THEN Err("Failed to parse repository URL")
  ELSE LET hostname == url.value.hostname
           pathParts == PathParts(url.value.pathname) IN
       IF Len(pathParts) < 2 THEN Err("Failed to parse repository URL")
       ELSE LET meta(platform) ==
                  Ok([platform |-> platform, hostname |-> hostname,
                      owner |-> pathParts[1], repo |-> pathParts[2]]) IN
            IF hostname = <<"github.com">> THEN meta("github")
            ELSE IF hostname = <<"codeberg.org">> THEN meta("codeberg")
            ELSE IF Includes(hostname, <<"gitlab">>) THEN meta("gitlab")
            ELSE Err("Failed to parse repository URL")

\* Every Error thrown inside parseRepoUrl is caught and thrown again as
\* "Failed to parse repository URL: ...".
parseRepoUrl(repoUrl) ==
  LET url == ParseURL(repoUrl) IN
  IF ~url.ok THEN Err("Failed to parse repository URL")
  ELSE LET hostname == url.value.hostname
           pathParts == PathParts(url.value.pathname) IN
       IF Len(pathParts) < 2 THEN Err("Failed to parse repository URL")
       ELSE LET meta(platform) ==
                  Ok([platform |-> platform, hostname |-> hostname,
                      owner |-> pathParts[1], repo |-> pathParts[2]]) IN
            IF hostname = <<"github.com">> THEN meta("github")
            ELSE IF hostname = <<"codeberg.org">> THEN meta("codeberg")
            ELSE IF \/ Includes(hostname, <<"gitlab">>)
                    \/ hostname = <<"invent.kde.org">>
            THEN meta("gitlab")
            ELSE Err("Failed to parse repository URL")

parseGitHubRepoUrl(repoUrl) ==
  LET parsed == parseRepoUrl(repoUrl) IN
  IF ~parsed.ok THEN parsed
  ELSE IF parsed.value.platform # "github" THEN Err("Not a GitHub URL")
  ELSE Ok([owner |-> parsed.value.owner, repo |-> parsed.value.repo])

\* A PRManager: whether it has a GitHub and a Codeberg token, and the host
\* names its gitlabTokens map has a token for (a single string given to the
\* constructor is the token of gitlab.com).
Managers ==
  { [githubToken |-> FALSE, gitlabTokens |-> {}, codebergToken |-> FALSE],
    [githubToken |-> TRUE, gitlabTokens |-> {<<"gitlab", ".com">>},
     codebergToken |-> TRUE],
    [githubToken |-> TRUE,
     gitlabTokens |-> {<<"gitlab", ".gnome.org">>, <<"invent.kde.org">>},
     codebergToken |-> FALSE] }

\* An asynchronous method ends with the requests it sent and what it
\* returned or threw.
Outcome(requests, result) == [requests |-> requests, result |-> result]

\* The POST a create method sends, and the end of the method after it:
\* the URL of the response, or an Error when the response is not ok.
Post(host, owner, repo, responseOk, failure) ==
  Outcome(<<[host |-> host, owner |-> owner, repo |-> repo]>>,
          IF responseOk THEN Ok("url") ELSE Err(failure))

createGitHubPR(mgr, repoUrl, responseOk) ==
  IF ~mgr.githubToken THEN Outcome(<<>>, Err("GitHub token not configured"))
  ELSE LET parsed == parseGitHubRepoUrl(repoUrl) IN
       IF ~parsed.ok THEN Outcome(<<>>, parsed)
       ELSE Post(<<"api.", "github.com">>, parsed.value.owner,
                 parsed.value.repo, responseOk, "Failed to create GitHub PR")

createGitLabMR(mgr, repoUrl, responseOk) ==
  LET parsed == parseRepoUrl(repoUrl) IN
  IF ~parsed.ok THEN Outcome(<<>>, parsed)
  ELSE IF ~Includes(parsed.value.hostname, <<"gitlab">>)
  THEN Outcome(<<>>, Err("Not a GitLab URL"))
  ELSE IF parsed.value.hostname \notin mgr.gitlabTokens
  THEN Outcome(<<>>, Err("GitLab token not configured"))
  ELSE Post(parsed.value.hostname, parsed.value.owner, parsed.value.repo,
            responseOk, "Failed to create GitLab MR")

createCodebergPR(mgr, repoUrl, responseOk) ==
  IF ~mgr.codebergToken
  THEN Outcome(<<>>, Err("Codeberg token not configured"))
  ELSE LET parsed == parseRepoUrl(repoUrl) IN
       IF ~parsed.ok THEN Outcome(<<>>, parsed)
       ELSE Post(<<"codeberg.org">>, parsed.value.owner, parsed.value.repo,
                 responseOk, "Failed to create Codeberg PR")

createPR(mgr, repoUrl, responseOk) ==
  LET parsed == parseRepoUrl(repoUrl) IN
  IF ~parsed.ok THEN Outcome(<<>>, parsed)
  ELSE CASE parsed.value.platform = "github" ->
              createGitHubPR(mgr, repoUrl, responseOk)
         [] parsed.value.platform = "gitlab" ->
              createGitLabMR(mgr, repoUrl, responseOk)
         [] parsed.value.platform = "codeberg" ->
              createCodebergPR(mgr, repoUrl, responseOk)
         [] OTHER -> Outcome(<<>>, Err("Unsupported platform"))

\* The host names and the path segments the repository URLs are made of.
Hosts ==
  { <<"github.com">>, <<"GitHub.com">>, <<"www.", "github.com">>,
    <<"codeberg.org">>, <<"gitlab", ".com">>, <<"gitlab", ".gnome.org">>,
    <<"invent.kde.org">>, <<"example.org">> }

PathSegments ==
  { <<>>, <<"flathub">>, <<"net", ".filebot", ".FileBot">>,
    <<"net", ".filebot", ".FileBot", ".git">>, <<"team", ".git">> }

\* Every path of at most n segments, each after a "/".
RECURSIVE Pathnames(_)
Pathnames(n) ==
  IF n = 0 THEN {<<>>}
  ELSE LET shorter == Pathnames(n - 1) IN
       shorter \cup {path \o <<"/">> \o part :
                       path \in shorter, part \in PathSegments}

\* The repository URLs: a scheme, a host and a path, or no scheme at all.
RepoUrls ==
  {scheme \o host \o path :
     scheme \in {<<"https://">>, <<>>}, host \in Hosts,
     path \in Pathnames(MaxPathParts)}

\* A PRManager on which no method was called yet.
PrInit ==
  /\ \E mgr \in Managers :
       pr = [pc |-> "ready", mgr |-> mgr, method |-> "", repoUrl |-> <<>>,
             requests |-> <<>>, result |-> Ok(<<>>)]
  /\ file = [type |-> "desktop", content |-> <<>>]
  /\ log = <<>>
  /\ main = NoMain
  /\ api = NoApi

\* A method was called with repoUrl and has ended as outcome says.  The
\* methods leave the manager as it is, so one call of each run is followed.
Returned(method, repoUrl, outcome) ==
  [pr EXCEPT !.pc = "returned", !.method = method, !.repoUrl = repoUrl,
             !.requests = outcome.requests, !.result = outcome.result]

ParseRepoUrl ==
  /\ pr.pc = "ready"
  /\ \E repoUrl \in RepoUrls :
       pr' = Returned("parseRepoUrl", repoUrl,
                      Outcome(<<>>, parseRepoUrl(repoUrl)))
  /\ UNCHANGED <<file, log, main, api>>

ParseGitHubRepoUrl ==
  /\ pr.pc = "ready"
  /\ \E repoUrl \in RepoUrls :
       pr' = Returned("parseGitHubRepoUrl", repoUrl,
                      Outcome(<<>>, parseGitHubRepoUrl(repoUrl)))
  /\ UNCHANGED <<file, log, main, api>>

\* createPR, with the answer of the forge to the request it may send.
CreatePR ==
  /\ pr.pc = "ready"
  /\ \E repoUrl \in RepoUrls, responseOk \in BOOLEAN :
       pr' = Returned("createPR", repoUrl,
                      createPR(pr.mgr, repoUrl, responseOk))
  /\ UNCHANGED <<file, log, main, api>>

PrNext ==
  \/ ParseRepoUrl
  \/ ParseGitHubRepoUrl
  \/ CreatePR

PrSpec == PrInit /\ [][PrNext]_vars

\* ---------------------------------- main: branch, push and pull request

\* Step 7: the branch, named after the mode and the time.
StepBranch ==
  /\ main.pc = "done"
  /\ LET branchName == <<main.mode, "-", "now">> IN
     main' = [main EXCEPT
                !.branchName = branchName,
                !.ops = Append(@, Op("createBranch", main.repoPath, <<>>, "",
                                     branchName, TRUE)),
                !.pc = "commit"]
  /\ MainFrame

StepCommit ==
  /\ main.pc = "commit"
  /\ main' = [main EXCEPT
                !.ops = Append(@, Op("commitChanges", main.repoPath, <<>>,
                                     "", main.branchName, TRUE)),
                !.pc = "push"]
  /\ MainFrame

\* Step 8 up to the first push: with a GitHub token and a github.com URL
\* the user is asked for and the branch goes to a fork when the user is
\* known and is not the owner; with a GitLab token and a
\* gitlab.com URL it goes to origin; otherwise nothing is pushed.  An Error
\* of the GitHub workflow is caught and logged (580-586).
StepPush ==
  /\ main.pc = "push"
  /\ \E userLogin \in UserLogins :
       main' =
         IF main.GITHUB_TOKEN /\ Includes(main.repoUrl, <<"github.com">>)
         THEN LET parsed == parseGitHubRepoUrl(main.repoUrl) IN
              IF ~parsed.ok THEN [main EXCEPT !.pc = "pr"]
              ELSE IF userLogin # <<>> /\ userLogin # parsed.value.owner
              THEN [main EXCEPT !.userLogin = userLogin, !.pc = "fork"]
              ELSE [main EXCEPT !.userLogin = userLogin, !.pc = "pushing",
                                !.remote = "origin", !.attempt = 1]
         ELSE IF /\ main.GITLAB_TOKEN
                 /\ Includes(main.repoUrl, <<"gitlab", ".com">>)
         THEN [main EXCEPT !.pc = "gitlab"]
         ELSE [main EXCEPT !.pc = "pr"]
  /\ MainFrame

\* forkGitHubRepo and addRemote, before the first push or after the direct
\* push failed; the fork request answers with the login of the user, or
\* with none, so that the fork is taken to be the user's (or the owner's
\* when the user is not known).  An Error of either call leaves the
\* workflow through its catch.
Fork(forked, added) ==
  /\ main.pc = "fork"
  /\ LET owner == parseGitHubRepoUrl(main.repoUrl).value.owner
         forkOwner == IF main.userLogin # <<>> THEN main.userLogin ELSE owner
         fork == Op("forkGitHubRepo", "", main.repoUrl, "", <<>>, forked)
         remote == Op("addRemote", main.repoPath,
                      <<"https://", "github.com", "/">> \o forkOwner,
                      "fork", <<>>, added) IN
     main' =
       IF ~forked
       THEN [main EXCEPT !.ops = Append(@, fork), !.pc = "pr"]
       ELSE IF ~added
       THEN [main EXCEPT !.ops = @ \o <<fork, remote>>, !.pc = "pr"]
       ELSE [main EXCEPT !.ops = @ \o <<fork, remote>>,
                         !.forkOwner = forkOwner, !.pc = "pushing",
                         !.remote = "fork", !.attempt = 1]
  /\ MainFrame

\* pushWithRetries that gives up after every failed attempt.
PushWithRetries_NoRetry(ok) ==
  /\ main.pc = "pushing"
  /\ LET pushed == [main EXCEPT
                      !.ops = Append(@, Op("pushBranch", main.repoPath, <<>>,
                                           main.remote, main.branchName,
                                           ok))] IN
     main' =
       IF ok
       THEN [pushed EXCEPT
               !.pc = "pr",
               !.headOverride =
                 IF main.remote = "fork"
                 THEN main.forkOwner \o <<":">> \o main.branchName
                 ELSE @]
       ELSE IF main.remote = "origin" THEN [pushed EXCEPT !.pc = "fork"]
       ELSE [pushed EXCEPT !.pc = "pr"]
  /\ MainFrame

\* One attempt of pushWithRetries(remote): a push that succeeds returns; a
\* failed one is retried unless it was the last, whose Error reaches the
\* fork fallback (remote origin) or the catch of the workflow (remote fork).
PushWithRetries(ok) ==
  /\ main.pc = "pushing"
  /\ LET pushed == [main EXCEPT
                      !.ops = Append(@, Op("pushBranch", main.repoPath, <<>>,
                                           main.remote, main.branchName,
                                           ok))] IN
     main' =
       IF ok
       THEN [pushed EXCEPT
               !.pc = "pr",
               !.headOverride =
                 IF main.remote = "fork"
                 THEN main.forkOwner \o <<":">> \o main.branchName
                 ELSE @]
       ELSE IF main.attempt = maxAttempts
       THEN IF main.remote = "origin" THEN [pushed EXCEPT !.pc = "fork"]
            ELSE [pushed EXCEPT !.pc = "pr"]
       ELSE [pushed EXCEPT !.attempt = @ + 1]
  /\ MainFrame

\* The push to origin of a GitLab repository; its Error is thrown again.
GitLabPush(ok) ==
  /\ main.pc = "gitlab"
  /\ main' = [main EXCEPT
                !.ops = Append(@, Op("pushBranch", main.repoPath, <<>>,
                                     "origin", main.branchName, ok)),
                !.pc = IF ok THEN "pr" ELSE "exit1"]
  /\ MainFrame

\* Step 9 without its test of the tokens.
StepCreatePR_NoTokenTest(responseOk) ==
  /\ main.pc = "pr"
  /\ main' =
       LET mgr == [githubToken |-> main.GITHUB_TOKEN,
                   gitlabTokens |-> IF main.GITLAB_TOKEN
                                    THEN {<<"gitlab", ".com">>} ELSE {},
                   codebergToken |-> FALSE]
           outcome == createPR(mgr, main.repoUrl, responseOk) IN
       [main EXCEPT
          !.ops = Append(@, Op("createPR", "", main.repoUrl, "",
                               main.branchName, outcome.result.ok)),
          !.pc = IF outcome.result.ok THEN "end" ELSE "exit1"]
  /\ MainFrame

\* Step 9: without a token the run ends; otherwise createPR is called on a
\* PRManager made of the two tokens, and its Error ends the run in the
\* catch of main.
StepCreatePR(responseOk) ==
  /\ main.pc = "pr"
  /\ main' =
       IF ~main.GITHUB_TOKEN /\ ~main.GITLAB_TOKEN
       THEN [main EXCEPT !.pc = "end"]
       ELSE LET mgr == [githubToken |-> main.GITHUB_TOKEN,
                        gitlabTokens |-> IF main.GITLAB_TOKEN
                                         THEN {<<"gitlab", ".com">>} ELSE {},
                        codebergToken |-> FALSE]
                outcome == createPR(mgr, main.repoUrl, responseOk) IN
            [main EXCEPT
               !.ops = Append(@, Op("createPR", "", main.repoUrl, "",
                                    main.branchName, outcome.result.ok)),
               !.pc = IF outcome.result.ok THEN "end" ELSE "exit1"]
  /\ MainFrame

\* An exception raised inside the try block of main (a rejected
\* generation or clone, a call of the patcher that throws, a rejected
\* writeTextFile) reaches its only catch, which ends the process.  Throws
\* holds where main is about to make such a call.
Throws ==
  CASE main.pc \in {"keywords", "summary", "description"} ->
         main.mode \in {"all", main.pc}
    [] main.pc \in {"upstream", "done", "commit"} -> TRUE
    [] main.pc = "patch" /\ main.step = "write" -> main.hasChanges
    [] main.pc = "patch" /\ main.step = "keywords" ->
         /\ main.acceptedMetadata.keywords
         /\ ~(/\ main.metadataFiles[main.i].type = "desktop"
              /\ hasAppstreamFiles(main.metadataFiles))
    [] main.pc = "patch" -> main.acceptedMetadata[main.step]
    [] OTHER -> FALSE

Catch ==
  /\ Throws
  /\ main' = [main EXCEPT !.pc = "exit1"]
  /\ MainFrame

MainNext ==
  \/ \E generated \in GeneratedKeywords, response \in Answers :
       GenerateKeywords(generated, response)
  \/ \E generated \in SummaryValues, response \in Answers :
       GenerateSummary(generated, response)
  \/ \E generated \in GeneratedDescriptions, response \in Answers :
       GenerateDescription(generated, response)
  \/ CheckAccepted
  \/ \E failed \in BOOLEAN, tree \in Trees : CloneFlathub(failed, tree)
  \/ \E appstream \in MainAppstreams, tree \in Trees :
       CloneUpstream(appstream, tree)
  \/ StepKeywords
  \/ StepSummary
  \/ StepDescription
  \/ StepWrite
  \/ StepBranch
  \/ StepCommit
  \/ StepPush
  \/ \E forked \in BOOLEAN, added \in BOOLEAN : Fork(forked, added)
  \/ \E ok \in BOOLEAN : PushWithRetries(ok)
  \/ \E ok \in BOOLEAN : GitLabPush(ok)
  \/ \E responseOk \in BOOLEAN : StepCreatePR(responseOk)
  \/ Catch

MainSpec == MainInit /\ [][MainNext]_vars

\* ------------------------------------------------------------------ claims

\* The content the i-th patch call of the log returned.
After(i) == IF i < Len(log) THEN log[i + 1].before ELSE file.content

Calls(field) == {i \in 1..Len(log) : log[i].field = field}

\* Every  open ... close  block of s, left to right, none overlapping.
RECURSIVE Blocks(_, _, _)
Blocks(s, open, close) ==
  LET m == AnyElem(s, open, close) IN
  IF m.at = 0 THEN <<>>
  ELSE <<SubSeq(s, m.at, m.end)>>
         \o Blocks(Slice(s, m.end + 1, Len(s)), open, close)

\* s without its white space.
Ink(s) == SelectSeq(s, LAMBDA t : ~IsSpace(t))

\* C1: a patch call that repeats the call before it (same field, same value)
\* returns the content it was given.
C1_Idempotent ==
  \A i \in 1..(Len(log) - 1) :
    (log[i].field = log[i + 1].field /\ log[i].value = log[i + 1].value)
      => After(i + 1) = After(i)

\* C2: after patchKeywords a desktop document has exactly one line that
\* begins with Keywords= and an XML document exactly one <keywords> block
\* (stated for the documents that held at most one to begin with: the old
\* line or block is gone).
C2_SingleOccurrence ==
  \A i \in Calls("keywords") :
    LET before == log[i].before
        out == After(i)
        KeywordLines(s) == {j \in 1..Len(s) :
                              LineStart(s, j) /\ s[j] = "Keywords="} IN
    IF file.type = "desktop"
    THEN Cardinality(KeywordLines(before)) <= 1
           => Cardinality(KeywordLines(out)) = 1
    ELSE CountTok(before, "<keywords>") <= 1
           => /\ Len(Blocks(out, "<keywords>", "</keywords>")) = 1
              /\ CountTok(out, "<keywords>") = 1
              /\ CountTok(out, "</keywords>") = 1

\* C3: patchSummary and patchDescription return the content of a desktop
\* file as it was given.
C3_DialectRejection ==
  \A i \in Calls("summary") \cup Calls("description") :
    file.type = "desktop" => After(i) = log[i].before

C3_Witness ==
  /\ file.type = "desktop"
  /\ file.content # <<>>
  /\ Len(log) = 2
  /\ log[1].field = "summary"
  /\ log[2].field = "description"

\* The text a claim expects for an XML-escaped value: each of & < > " '
\* becomes its entity, every other token stays.
Entity(t) ==
  CASE t = "&" -> <<"&", "amp;">>
    [] t = "<" -> <<"&", "lt;">>
    [] t = ">" -> <<"&", "gt;">>
    [] t = "\"" -> <<"&", "quot;">>
    [] t = "'" -> <<"&", "apos;">>
    [] OTHER -> <<t>>

Escaped(v) == Flatten([i \in 1..Len(v) |-> Entity(v[i])])

\* out is before with the tokens a..b (none when a = b + 1) replaced by some
\* text whose tokens, white space aside, are ink.
SplicedAt(before, out, a, b, ink) ==
  LET tail == Len(before) - b
      n == Len(out) - (a - 1) - tail IN
  /\ n >= 0
  /\ Slice(out, 1, a - 1) = Slice(before, 1, a - 1)
  /\ Slice(out, Len(out) - tail + 1, Len(out)) = Slice(before, b + 1, Len(before))
  /\ Ink(Slice(out, a, a + n - 1)) = ink

\* The last token of the line that holds token j of s.
LineEnd(s, j) == Min({k \in j..Len(s) : k = Len(s) \/ s[k + 1] = NL})

\* The first token of the line that holds token j of s.
LineBegin(s, j) == Max({a \in 1..j : LineStart(s, a)})

\* The disclaimer sentences (white space normalised) that the paragraphs of
\* the first <description> block of s hold.
Sentences(s) ==
  LET d == AnyElem(s, "<description>", "</description>")
      ps == IF d.at = 0 THEN <<>> ELSE Paragraphs(SubSeq(s, d.at, d.end)) IN
  {TextContent(ps[k]) : k \in {k \in 1..Len(ps) : IsDisclaimer(ps[k])}}

Omits(value, sentence) ==
  ~Includes(ToLowerCase(CollapseSpace(value)), ToLowerCase(sentence))

\* C4: when the description block of an XML document holds a disclaimer
\* paragraph and the new description omits its sentence, the patched document
\* has a description block that holds the normalised sentence exactly once
\* (a second patch with the same value is one more such call).
C4_DisclaimerRetention ==
  \A i \in Calls("description") :
    file.type # "desktop" =>
      \A sentence \in Sentences(log[i].before) :
        Omits(log[i].value, sentence) =>
          LET blocks == Blocks(After(i), "<description>", "</description>") IN
          \E k \in 1..Len(blocks) : Occurrences(blocks[k], sentence) = 1

\* The Keywords= line a claim expects for the tokens kws.
KeywordLine(kws) ==
  <<"Keywords=">> \o Flatten([k \in 1..Len(kws) |-> kws[k] \o <<";">>])

\* C5: patchKeywords on a desktop document replaces the first Keywords= line
\* where it stands, else inserts the new line right after the first line that
\* is [Desktop Entry] once trimmed, else appends a line break and the new
\* line; the new line is Keywords= and each token followed by ";".
C5_DesktopPlacement ==
  \A i \in Calls("keywords") :
    file.type = "desktop" =>
      LET before == log[i].before
          out == After(i)
          line == KeywordLine(log[i].value)
          old == {j \in 1..Len(before) :
                    LineStart(before, j) /\ before[j] = "Keywords="}
          headers == {j \in 1..Len(before) :
                        /\ before[j] = "[Desktop Entry]"
                        /\ \A k \in LineBegin(before, j)..LineEnd(before, j) :
                             k = j \/ IsSpace(before[k])} IN
      IF old # {}
      THEN out = Slice(before, 1, Min(old) - 1) \o line
                   \o Slice(before, LineEnd(before, Min(old)) + 1, Len(before))
      ELSE IF headers # {}
           THEN LET e == LineEnd(before, Min(headers)) IN
                out = Slice(before, 1, e) \o <<NL>> \o line
                        \o Slice(before, e + 1, Len(before))
           ELSE out = before \o <<NL>> \o line

\* The start positions a claim allows for replacing the element that opens at
\* j together with the white space in front of it.
WithIndent(s, j) == {a \in 1..j : \A k \in a..(j - 1) : IsSpace(s[k])}

\* The <keywords> block a claim expects for the tokens kws, white space aside.
KeywordsInk(kws) ==
  <<"<keywords>">>
    \o Flatten([k \in 1..Len(kws) |->
                  <<"<keyword>">> \o Escaped(kws[k]) \o <<"</keyword>">>])
    \o <<"</keywords>">>

\* C6: patchKeywords on an XML document replaces the first <keywords> block
\* where it stands; without one it inserts the new block right before the
\* first </component>, wherever in the document that tag is, and appends only
\* when there is no such tag.  The block has one <keyword> per token, in order.
C6_XmlKeywordPlacement ==
  \A i \in Calls("keywords") :
    file.type # "desktop" =>
      LET before == log[i].before
          out == After(i)
          ink == KeywordsInk(log[i].value)
          old == AnyElem(before, "<keywords>", "</keywords>")
          close == AnyElem(before, "</component>", "</component>") IN
      IF old.at # 0
      THEN \E a \in WithIndent(before, old.at) :
             SplicedAt(before, out, a, old.end, ink)
      ELSE IF close.at # 0
           THEN \E a \in WithIndent(before, close.at) :
                  SplicedAt(before, out, a, a - 1, ink)
           ELSE SplicedAt(before, out, Len(before) + 1, Len(before), ink)

SummaryInk(v) == <<"<summary>">> \o Escaped(v) \o <<"</summary>">>

\* C7: patchSummary on an XML document replaces the first <summary> element;
\* without one it inserts the new element right after the <name> element,
\* else right after the opening <component> tag, else at the very start.  A
\* document that had at most one <summary> element has exactly one afterwards.
C7_SummaryPlacement ==
  \A i \in Calls("summary") :
    file.type # "desktop" =>
      LET before == log[i].before
          out == After(i)
          ink == SummaryInk(log[i].value)
          old == AnyElem(before, "<summary>", "</summary>")
          name == AnyElem(before, "<name>", "</name>")
          open == AnyElem(before, "<component>", "<component>") IN
      /\ IF old.at # 0
         THEN \E a \in WithIndent(before, old.at) :
                SplicedAt(before, out, a, old.end, ink)
         ELSE IF name.at # 0
              THEN SplicedAt(before, out, name.end + 1, name.end, ink)
              ELSE IF open.at # 0
                   THEN SplicedAt(before, out, open.end + 1, open.end, ink)
                   ELSE SplicedAt(before, out, 1, 0, ink)
      /\ CountTok(before, "<summary>") <= 1 =>
           Len(Blocks(out, "<summary>", "</summary>")) = 1

\* The <description> block a claim expects for the value v on a document
\* whose description block holds the disclaimer sentences notes (in order),
\* white space aside.
DescriptionInk(v, notes) ==
  <<"<description>">> \o Ink(v)
    \o Flatten([k \in 1..Len(notes) |->
                  <<"<p>">> \o Ink(notes[k]) \o <<"</p>">>])
    \o <<"</description>">>

\* C8: patchDescription on an XML document replaces the first <description>
\* block (the one scanned for disclaimers) where it stands and adds no second
\* block; without one it inserts the new block right after <summary>, else
\* right after <name>, else right before </component>, else at the end.
C8_DescriptionPlacement ==
  \A i \in Calls("description") :
    file.type # "desktop" =>
      LET before == log[i].before
          out == After(i)
          ink == DescriptionInk(log[i].value, DisclaimerBlocks(before))
          old == AnyElem(before, "<description>", "</description>")
          summ == AnyElem(before, "<summary>", "</summary>")
          name == AnyElem(before, "<name>", "</name>")
          close == AnyElem(before, "</component>", "</component>") IN
      IF old.at # 0
      THEN /\ \E a \in WithIndent(before, old.at) :
                SplicedAt(before, out, a, old.end, ink)
           /\ CountTok(out, "<description>") = CountTok(before, "<description>")
      ELSE IF summ.at # 0
           THEN SplicedAt(before, out, summ.end + 1, summ.end, ink)
           ELSE IF name.at # 0
                THEN SplicedAt(before, out, name.end + 1, name.end, ink)
                ELSE IF close.at # 0
                     THEN \E a \in WithIndent(before, close.at) :
                            SplicedAt(before, out, a, a - 1, ink)
                     ELSE SplicedAt(before, out, Len(before) + 1, Len(before),
                                    ink)

\* C9: on an XML document without <summary> and without <description>,
\* patchSummary then patchDescription leave the new <summary> element
\* followed by a line break, indentation and the new <description> block; the
\* <summary> stands right after <name>, right after the opening <component>
\* tag when there is no <name>, else first in the document.
C9_OrderSensitivity ==
  \A i \in 1..(Len(log) - 1) :
    ( /\ file.type # "desktop"
      /\ log[i].field = "summary"
      /\ log[i + 1].field = "description"
      /\ CountTok(log[i].before, "<summary>") = 0
      /\ CountTok(log[i].before, "<description>") = 0 )
    => LET before == log[i].before
           out == After(i + 1)
           elem == SummaryInk(log[i].value)
           name == AnyElem(before, "<name>", "</name>")
           open == AnyElem(before, "<component>", "<component>")
           anchor == IF name.at # 0 THEN name.end
                     ELSE IF open.at # 0 THEN open.end ELSE 0
           p == FirstInk(out, anchor + 1)
           q == p + Len(elem) - 1
           d == FirstInk(out, q + 2)
           e == IF d <= Len(out)
                THEN CloseOf(out, d, "<description>", "</description>")
                ELSE 0 IN
       /\ Slice(out, 1, anchor) = Slice(before, 1, anchor)
       /\ q + 1 <= Len(out)
       /\ SubSeq(out, p, q) = elem
       /\ out[q + 1] = NL
       /\ \A k \in (q + 2)..(d - 1) : out[k] = SP
       /\ e # 0
       /\ Ink(SubSeq(out, d, e)) = DescriptionInk(log[i + 1].value, <<>>)

\* The regions of s a claim allows a patch of the field to replace: an
\* occurrence of the field (with the white space in front of it) or an empty
\* insertion point.
Regions(s, type, field) ==
  LET open == "<" \o field \o ">"
      close == "</" \o field \o ">" IN
  {<<a, a - 1>> : a \in 1..(Len(s) + 1)}
    \cup (IF type = "desktop"
          THEN {<<j, LineEnd(s, j)>> :
                  j \in {j \in 1..Len(s) :
                           LineStart(s, j) /\ s[j] = "Keywords="}}
          ELSE UNION {{<<a, CloseOf(s, j, open, close)>> : a \in WithIndent(s, j)} :
                        j \in {j \in 1..Len(s) :
                                 s[j] = open /\ CloseOf(s, j, open, close) # 0}})

\* The text a claim expects a patch to write, white space aside.
FieldInk(type, field, value, before) ==
  CASE field = "keywords" /\ type = "desktop" -> KeywordLine(value)
    [] field = "keywords" /\ type # "desktop" -> KeywordsInk(value)
    [] field = "summary" -> SummaryInk(value)
    [] OTHER -> DescriptionInk(value, DisclaimerBlocks(before))

\* C10: a patch call returns what it was given with one contiguous region,
\* an occurrence of the field or an empty insertion point, replaced by the new
\* field text; all other tokens stay, in order.
C10_Frame ==
  \A i \in 1..Len(log) :
    LET before == log[i].before
        out == After(i)
        field == log[i].field IN
    IF file.type = "desktop" /\ field # "keywords"
    THEN out = before
    ELSE \E r \in Regions(before, file.type, field) :
           SplicedAt(before, out, r[1], r[2],
                     FieldInk(file.type, field, log[i].value, before))

\* ------------------------------------------------- claims about main

\* The discovered file with the given path.
FileOf(path) ==
  LET k == CHOOSE k \in 1..Len(main.metadataFiles) :
             main.metadataFiles[k].path = path IN
  main.metadataFiles[k]

\* The positions of the patcher calls and of the writes for a path.
CallsOn(path) ==
  {j \in 1..Len(main.calls) : main.calls[j].file.path = path}

WritesOf(path) ==
  {j \in 1..Len(main.writes) : main.writes[j].path = path}

FieldRank(field) ==
  CASE field = "keywords" -> 1 [] field = "summary" -> 2 [] OTHER -> 3

\* The content the fixed sequence keywords, summary, description gives a
\* file when every accepted field is applied and every other is left out.
Sequenced(f) ==
  LET a == main.acceptedMetadata
      k == IF a.keywords THEN patchKeywords(f, main.keywords) ELSE f.content
      s == IF a.summary
           THEN patchSummary([f EXCEPT !.content = k], main.summary)
           ELSE k
  IN IF a.description
     THEN patchDescription([f EXCEPT !.content = s], main.description)
     ELSE s

\* C11: for each document main applies the accepted fields in the order
\* keywords, summary, description; each call gets the content the previous
\* step of that document produced and the document's own type; a field
\* that was not accepted leaves the content as it is; what is written is
\* the output of the last step.
C11_OrchestratorOrder ==
  /\ \A j \in 1..Len(main.calls) :
       LET c == main.calls[j]
           f == FileOf(c.file.path)
           earlier == {h \in CallsOn(f.path) : h < j} IN
       /\ main.acceptedMetadata[c.field]
       /\ c.file.type = f.type
       /\ \A h \in earlier :
            FieldRank(main.calls[h].field) < FieldRank(c.field)
       /\ c.file.content =
            IF earlier = {} THEN f.content ELSE main.calls[Max(earlier)].result
  /\ \A j \in 1..Len(main.writes) :
       main.writes[j].content = Sequenced(FileOf(main.writes[j].path))

\* C12: when the patch loop has ended, every discovered document was
\* written exactly once, with the content its last patch produced.
C12_WrittenOnce ==
  main.pc = "done" =>
    \A k \in 1..Len(main.metadataFiles) :
      LET f == main.metadataFiles[k] IN
      /\ Cardinality(WritesOf(f.path)) = 1
      /\ \A j \in WritesOf(f.path) :
           main.writes[j].content =
             IF CallsOn(f.path) = {} THEN f.content
             ELSE main.calls[Max(CallsOn(f.path))].result

\* The summary and description steps already taken on the k-th file.
StepsTaken(k) ==
  IF k < main.i THEN {"summary", "description"}
  ELSE IF k > main.i \/ main.pc \notin {"patch", "exit1"} THEN {}
  ELSE CASE main.step = "description" -> {"summary"}
         [] main.step = "write" -> {"summary", "description"}
         [] OTHER -> {}

\* C13: a summary or description requested against a desktop document is
\* reported as skipped for that document and never as applied, and the
\* loop goes on.
C13_SkippedUnsupported ==
  \A k \in 1..Len(main.metadataFiles) :
    LET f == main.metadataFiles[k] IN
    f.type = "desktop" =>
      \A field \in StepsTaken(k) :
        main.acceptedMetadata[field] =>
          /\ \E j \in 1..Len(main.console) :
               main.console[j] = Line("Skipped", field, f.path)
          /\ \A j \in 1..Len(main.console) :
               main.console[j] # Line("Applied", field, f.path)

\* C14: when a patch call of the loop throws, the patches completed before
\* it for the same document are on disk, and so is every document written
\* earlier in the run.
C14_FieldIndependence ==
  (/\ main.pc = "exit1"
   /\ main.i \in 1..Len(main.metadataFiles)
   /\ main.step \in {"keywords", "summary", "description"}) =>
    /\ main.hasChanges =>
         main.disk[main.metadataFiles[main.i].path] = main.patchedContent
    /\ \A j \in 1..Len(main.writes) :
         main.disk[main.writes[j].path] = main.writes[j].content

\* C15: patchKeywords is never called with an empty list, and a keyword
\* generation that returns no keyword ends the run with nothing cloned,
\* patched or written.
C15_NoEmptyKeywords ==
  /\ \A j \in 1..Len(main.calls) :
       main.calls[j].field = "keywords" => Len(main.calls[j].value) > 0
  /\ (/\ main.mode \in {"all", "keywords"}
      /\ main.pc \notin {"none", "keywords"}
      /\ main.keywords = <<>>) =>
       /\ main.pc = "exit1"
       /\ DOMAIN main.disk = {}
       /\ main.calls = <<>>
       /\ main.writes = <<>>

\* A regenerated keyword list came back empty and the run has ended.
C15_Witness ==
  /\ main.pc = "exit1"
  /\ main.mode = "all"
  /\ main.keywords = <<>>
  /\ main.gen = 1

\* C16: the type of a discovered file follows from its file name alone:
\* desktop for a path ending in .desktop or .desktop.in, metainfo for a file
\* name with .metainfo.xml, appdata for one with .appdata.xml; isTemplate is
\* true exactly for the paths ending in .in.
C16_Classification ==
  \A k \in 1..Len(main.metadataFiles) :
    LET f == main.metadataFiles[k] IN
    /\ (EndsWith(f.path, <<".desktop">>)
          \/ EndsWith(f.path, <<".desktop", ".in">>)) => f.type = "desktop"
    /\ Includes(Basename(f.path), <<".metainfo.xml">>) => f.type = "metainfo"
    /\ Includes(Basename(f.path), <<".appdata.xml">>) => f.type = "appdata"
    /\ f.isTemplate <=> EndsWith(f.path, <<".in">>)

\* C17: when keywords are accepted, the loop patches the keywords of every
\* discovered document, the desktop files and the appstream files alike.
C17_KeywordsEverywhere ==
  (main.pc = "done" /\ main.acceptedMetadata.keywords) =>
    \A k \in 1..Len(main.metadataFiles) :
      \E j \in CallsOn(main.metadataFiles[k].path) :
        main.calls[j].field = "keywords"

\* -------------------------------------------- claims about PRManager

\* The host name of the URL of the last call and the segments of its path
\* as they are written, the empty ones left out.
UrlHost == ParseURL(pr.repoUrl).value.hostname

UrlSegments ==
  SelectSeq(Split(ParseURL(pr.repoUrl).value.pathname, "/"),
            LAMBDA part : part # <<>>)

\* The platform the claims give a host name, "none" for an unsupported one.
ClaimedPlatform(hostname) ==
  CASE hostname = <<"github.com">> -> "github"
    [] hostname = <<"codeberg.org">> -> "codeberg"
    [] \/ \E i \in 1..Len(hostname) : hostname[i] = "gitlab"
       \/ hostname = <<"invent.kde.org">> -> "gitlab"
    [] OTHER -> "none"

\* C18: for a well-formed URL with two path segments parseRepoUrl decides by
\* the host name alone: github.com is github, codeberg.org is codeberg, a
\* host name with gitlab in it or invent.kde.org is gitlab, any other host
\* name makes it throw; the hostname returned is the host name of the URL.
C18_PlatformByHostname ==
  (/\ pr.pc = "returned"
   /\ pr.method = "parseRepoUrl"
   /\ ParseURL(pr.repoUrl).ok
   /\ Len(UrlSegments) >= 2) =>
    IF ClaimedPlatform(UrlHost) = "none" THEN ~pr.result.ok
    ELSE /\ pr.result.ok
         /\ pr.result.value.platform = ClaimedPlatform(UrlHost)
         /\ pr.result.value.hostname = UrlHost

\* parseRepoUrl has returned gitlab for a repository of invent.kde.org.
C18_Witness ==
  /\ pr.pc = "returned"
  /\ pr.method = "parseRepoUrl"
  /\ pr.result.ok
  /\ pr.result.value.hostname = <<"invent.kde.org">>
  /\ pr.result.value.platform = "gitlab"
  /\ Len(UrlSegments) = 3

\* C19: parseRepoUrl and parseGitHubRepoUrl return the first path segment
\* as owner and the second, without a trailing .git, as repo; they throw
\* for a URL with fewer than two path segments, and parseGitHubRepoUrl
\* throws for every URL that is not of github.
C19_OwnerAndRepo ==
  (/\ pr.pc = "returned"
   /\ pr.method \in {"parseRepoUrl", "parseGitHubRepoUrl"}
   /\ ParseURL(pr.repoUrl).ok) =>
    /\ Len(UrlSegments) < 2 => ~pr.result.ok
    /\ pr.result.ok =>
         /\ pr.result.value.owner = UrlSegments[1]
         /\ pr.result.value.repo = StripGit(UrlSegments[2])
    /\ (/\ pr.method = "parseGitHubRepoUrl"
        /\ ClaimedPlatform(UrlHost) # "github") => ~pr.result.ok

\* C20: for a URL parseRepoUrl takes for gitlab, createPR of a manager with
\* a token for that host sends the merge request to the API of that host
\* and does not throw "Not a GitLab URL".
C20_GitLabEndToEnd ==
  (/\ pr.pc = "returned"
   /\ pr.method = "createPR"
   /\ parseRepoUrl(pr.repoUrl).ok
   /\ parseRepoUrl(pr.repoUrl).value.platform = "gitlab"
   /\ parseRepoUrl(pr.repoUrl).value.hostname \in pr.mgr.gitlabTokens) =>
    /\ pr.result.error # "Not a GitLab URL"
    /\ Len(pr.requests) = 1
    /\ pr.requests[1].host = parseRepoUrl(pr.repoUrl).value.hostname

\* ------------------------------------------------ claims about FlathubAPI

\* The repository of an issue-tracker URL <repo>/issues...: the scheme, the
\* host, the owner and the name, when "/" and issues follow them.
IssuesOfRepo(url) ==
  LET slashes == {i \in 1..(Len(url) - 1) : url[i] = "/"}
      third == {i \in slashes :
                  Cardinality({j \in slashes : j < i}) = 2} IN
  /\ third # {}
  /\ url[Min(third) + 1] = "issues"

RepoOfIssues(url) ==
  LET slashes == {i \in 1..(Len(url) - 1) : url[i] = "/"}
      third == {i \in slashes :
                  Cardinality({j \in slashes : j < i}) = 2} IN
  Slice(url, 1, Min(third) - 1)

\* C21: getRepositoryUrl returns null when urls is absent; otherwise
\* vcs_browser when it is set; otherwise homepage when it names a known
\* hosting site; otherwise, when bugtracker names a known hosting site, a
\* URL taken from bugtracker, which is exactly <repo> when bugtracker is
\* <repo>/issues...; otherwise null.
C21_RepositoryUrl ==
  api.pc = "returned" =>
    LET a == api.appstream.urls
        u == a.value
        known(opt) == Truthy(opt) /\ IncludesHostingSite(ToLowerCase(opt.value))
    IN
    IF a.null THEN api.result = Null
    ELSE IF Truthy(u.vcs_browser) THEN api.result = u.vcs_browser
    ELSE IF known(u.homepage) THEN api.result = u.homepage
    ELSE IF known(u.bugtracker)
    THEN /\ ~api.result.null
         /\ IssuesOfRepo(u.bugtracker.value) =>
              api.result.value = RepoOfIssues(u.bugtracker.value)
    ELSE api.result = Null

\* ----------------------------------------- more claims about FilePatcher

\* C22: patchDescription on an XML document with a plain-text description
\* (one without markup) returns a document with a <description> block in
\* which the text stands between <p> and </p>.
C22_ParagraphWrap ==
  \A i \in Calls("description") :
    (file.type # "desktop" /\ ~Includes(log[i].value, <<"<p>">>)) =>
      \E k \in 1..Len(Blocks(After(i), "<description>", "</description>")) :
        Includes(Ink(Blocks(After(i), "<description>", "</description>")[k]),
                 <<"<p>">> \o Ink(log[i].value) \o <<"</p>">>)

\* The opening tags of s that stand on a line of their own: only spaces lie
\* between the start of the line and the tag.
OwnLineTags(s, tag) ==
  {j \in 1..Len(s) :
     s[j] = tag /\ \A k \in LineBegin(s, j)..(j - 1) : s[k] = SP}

\* The base indent a claim expects: the spaces in front of the first such
\* tag, or four spaces.
ClaimedIndent(s, tag) ==
  IF OwnLineTags(s, tag) = {} THEN Indent4
  ELSE LET j == Min(OwnLineTags(s, tag)) IN Slice(s, LineBegin(s, j), j - 1)

StartsWith(s, prefix) ==
  Len(s) >= Len(prefix) /\ SubSeq(s, 1, Len(prefix)) = prefix

\* C23: the <keywords> block patchKeywords writes into an XML document has
\* its opening and closing tags at the base indent (the spaces in front of
\* the existing <keywords> tag on its line, else four spaces) and, on the
\* lines between them, one <keyword> per keyword at base indent plus four
\* spaces, with no blank line in between.
C23_KeywordIndent ==
  \A i \in Calls("keywords") :
    file.type # "desktop" =>
      LET base == ClaimedIndent(log[i].before, "<keywords>")
          lines == SplitLines(After(i))
          n == Len(log[i].value) IN
      \E a \in 1..Len(lines) :
        /\ a + n + 1 <= Len(lines)
        /\ lines[a] = base \o <<"<keywords>">>
        /\ \A k \in 1..n :
             StartsWith(lines[a + k], base \o Indent4 \o <<"<keyword>">>)
        /\ StartsWith(lines[a + n + 1], base \o <<"</keywords>">>)

\* C24: the document patchSummary returns for an XML document holds the
\* element <summary>E(v)</summary> for the value v it was given, whatever
\* characters v has ("$" included), E being the XML escaping of & < > " '.
C24_SummaryElement ==
  \A i \in Calls("summary") :
    file.type # "desktop" =>
      Includes(After(i),
               <<"<summary>">> \o Escaped(log[i].value) \o <<"</summary>">>)

\* ------------------------------- claims about the repository work of main

\* The calls of main.ops that are named op.
OpsNamed(m, op) == SelectSeq(m.ops, LAMBDA o : o.op = op)

NoTokens == ~main.GITHUB_TOKEN /\ ~main.GITLAB_TOKEN

\* C25: in a run without a GitHub and without a GitLab token nothing is
\* pushed, no fork and no pull request is asked for, and once the commit is
\* made the run goes on to its end without another call; a run that ends
\* has cloned a repository, written the patched files, created the branch and
\* committed, in this order.
C25_NoTokenRun ==
  [][NoTokens =>
       /\ \A k \in 1..Len(main'.ops) :
            main'.ops[k].op \in {"cloneRepository", "createBranch",
                                 "commitChanges"}
       /\ main.pc = "push" => (main'.pc = "pr" /\ main'.ops = main.ops)
       /\ main.pc = "pr" => (main'.pc = "end" /\ main'.ops = main.ops)
       /\ main'.pc = "end" =>
            LET n == Len(main'.ops) IN
            /\ n >= 3
            /\ main'.ops[n - 2].op = "cloneRepository" /\ main'.ops[n - 2].ok
            /\ main'.ops[n - 2].repoPath = main'.repoPath
            /\ main'.ops[n - 1].op = "createBranch"
            /\ main'.ops[n].op = "commitChanges"
            /\ main'.ops[n].repoPath = main'.repoPath
            /\ main'.writes # <<>>
            /\ \A w \in 1..Len(main'.writes) :
                 main'.writes[w].path[1] = main'.repoPath]_vars

C25_Witness == main.pc = "end" /\ NoTokens /\ Len(main.ops) = 4

\* C26: every call of createPR comes after a pushBranch that succeeded for
\* the same branch; a run whose pushes all failed calls no createPR.
C26_PushBeforePR ==
  \A k \in 1..Len(main.ops) :
    main.ops[k].op = "createPR" =>
      \E j \in 1..(k - 1) :
        /\ main.ops[j].op = "pushBranch"
        /\ main.ops[j].ok
        /\ main.ops[j].branchName = main.ops[k].branchName

SomeAccepted ==
  \/ main.acceptedMetadata.keywords
  \/ main.acceptedMetadata.summary
  \/ main.acceptedMetadata.description

\* C27: as long as no field is accepted the run is in its review loops or
\* has left, and has cloned nothing, patched and written no file and made no
\* branch, commit, push or pull request; every patch call is for a field
\* that was accepted.
C27_NothingWithoutAccept ==
  /\ ~SomeAccepted =>
       /\ main.pc \in {"keywords", "summary", "description", "accepted",
                       "exit0", "exit1"}
       /\ main.ops = <<>>
       /\ main.writes = <<>>
       /\ main.calls = <<>>
       /\ main.metadataFiles = <<>>
  /\ \A k \in 1..Len(main.calls) :
       main.acceptedMetadata[main.calls[k].field]

C27_Witness ==
  /\ main.pc = "exit0"
  /\ main.mode = "all"
  /\ ~SomeAccepted
  /\ promptForValue(main.response) = "skip"
  /\ main.description # <<>>

\* ------------------------------------- claims about the review loops

Fields == {"keywords", "summary", "description"}

\* What comes after the loop of a field.
AfterLoop(field) ==
  CASE field = "keywords" -> "summary"
    [] field = "summary" -> "description"
    [] field = "description" -> "accepted"

\* The answers a claim takes for q or the end of the input, for accept and
\* for skip; every other answer is another answer.
QuitAnswer(r) == r.null \/ r.value \in {<<"q">>, <<"Q">>}

AcceptAnswer(r) == ~r.null /\ r.value \in {<<"a">>, <<"A">>, <<"accept">>}

SkipAnswer(r) == ~r.null /\ r.value \in {<<"s">>, <<"S">>, <<"skip">>}

\* C28: a round of the review loop of a requested field that reaches its
\* prompt ends the run on q or the end of the input, leaves the loop with the
\* flag set and the generated value kept on accept, leaves it with the flag
\* unset on skip and stays in the loop on any other answer; outside its
\* loop the flag and the value of a field never change, and every patch
\* call is for an accepted field, with the value generated last for it.
C28_ReviewLoop ==
  [][\A f \in Fields :
       /\ (main.pc = f /\ main.mode \in {"all", f} /\ main'.pc # "exit1") =>
            LET r == main'.response IN
            /\ QuitAnswer(r) => main'.pc = "exit0"
            /\ AcceptAnswer(r) =>
                 /\ main'.pc = AfterLoop(f)
                 /\ main'.acceptedMetadata[f]
                 /\ main'[f] = main'.generated[f]
            /\ SkipAnswer(r) =>
                 main'.pc = AfterLoop(f) /\ ~main'.acceptedMetadata[f]
            /\ ~(QuitAnswer(r) \/ AcceptAnswer(r) \/ SkipAnswer(r)) =>
                 main'.pc = f /\ ~main'.acceptedMetadata[f]
       /\ (main.pc # f \/ main.mode \notin {"all", f}) =>
            /\ main'.acceptedMetadata[f] = main.acceptedMetadata[f]
            /\ main'[f] = main[f]
            /\ main'.generated[f] = main.generated[f]
       /\ \A k \in 1..Len(main'.calls) :
            main'.calls[k].field = f =>
              /\ main'.acceptedMetadata[f]
              /\ main'.calls[k].value = main'.generated[f]]_vars

C28_Witness ==
  /\ main.mode = "all"
  /\ main.pc = "summary"
  /\ main.acceptedMetadata.keywords
  /\ main.keywords = main.generated.keywords
  /\ main.gen = 1
  /\ main.response = Some(<<"quit">>)

\* ------------------------------------------- claims about pushWithRetries

\* The push attempts a run made on a remote.
PushesTo(m, remote) ==
  {k \in 1..Len(m.ops) :
     m.ops[k].op = "pushBranch" /\ m.ops[k].remote = remote}

\* C29: pushWithRetries pushes at most maxAttempts times to its remote and
\* never again after a push that succeeded; a successful attempt returns at
\* once, a failed attempt other than the last is followed by another, and
\* the Error leaves pushWithRetries only when maxAttempts attempts failed
\* in a row.
C29_PushWithRetries ==
  [][/\ \A r \in {"origin", "fork"} :
          /\ Cardinality(PushesTo(main', r)) <= maxAttempts
          /\ \A k \in PushesTo(main', r) :
               main'.ops[k].ok => \A j \in PushesTo(main', r) : j <= k
     /\ (main.pc = "pushing" /\ main'.ops # main.ops) =>
          LET n == Cardinality(PushesTo(main', main.remote))
              last == main'.ops[Len(main'.ops)] IN
          /\ Len(main'.ops) = Len(main.ops) + 1
          /\ last.op = "pushBranch" /\ last.remote = main.remote
          /\ last.ok => main'.pc = "pr"
          /\ (~last.ok /\ n < maxAttempts) =>
               main'.pc = "pushing" /\ main'.remote = main.remote
          /\ (~last.ok /\ n = maxAttempts) => main'.pc # "pushing"
          /\ (~last.ok /\ main'.pc # "pushing") =>
               /\ n = maxAttempts
               /\ \A k \in PushesTo(main', main.remote) : ~main'.ops[k].ok
               /\ \A k \in Len(main'.ops) - maxAttempts + 1..Len(main'.ops) :
                    k \in PushesTo(main', main.remote)]_vars

C29_Witness ==
  /\ main.pc = "fork"
  /\ Cardinality(PushesTo(main, "origin")) = maxAttempts
  /\ \A k \in PushesTo(main, "origin") : ~main.ops[k].ok

\* ------------------------------------ claims about the repository chosen

\* The positions of the operations of a run with one of the names.
OpsOf(m, names) == {k \in 1..Len(m.ops) : m.ops[k].op \in names}

\* C30: the first repository cloned is the Flathub one; the upstream
\* repository is cloned only after a Flathub try that failed or found no
\* metadata file; the files patched and written, the branch, the commit,
\* the remote and the pushes are in the clone chosen, the fork and the pull
\* request are for its URL, and that clone is the last one made, the one
\* whose files were found.
C30_RepositoryChoice ==
  [][/\ main'.ops # <<>> =>
          /\ main'.ops[1].op = "cloneRepository"
          /\ main'.ops[1].repoUrl = getFlathubRepoUrl(AppId)
     /\ \A k \in OpsOf(main', {"cloneRepository"}) :
          k > 1 =>
            /\ k = 2
            /\ main'.ops[k].repoPath = "upstream"
     /\ (/\ Len(main'.ops) = 2
         /\ Len(main.ops) = 1
         /\ main'.ops[2].op = "cloneRepository") =>
          /\ main.metadataFiles = <<>>
          /\ main.repoPath = ""
          /\ main.writes = <<>>
     /\ main'.repoPath # "" =>
          LET clones == OpsOf(main', {"cloneRepository"})
              chosen == main'.ops[Cardinality(clones)] IN
          /\ chosen.ok
          /\ chosen.repoPath = main'.repoPath
          /\ chosen.repoUrl = main'.repoUrl
          /\ main'.metadataFiles # <<>>
          /\ \A i \in 1..Len(main'.metadataFiles) :
               main'.metadataFiles[i].path[1] = main'.repoPath
     /\ \A c \in 1..Len(main'.calls) :
          main'.calls[c].file.path[1] = main'.repoPath
     /\ \A w \in 1..Len(main'.writes) :
          main'.writes[w].path[1] = main'.repoPath
     /\ \A k \in OpsOf(main', {"createBranch", "commitChanges", "addRemote",
                               "pushBranch"}) :
          main'.repoPath # "" /\ main'.ops[k].repoPath = main'.repoPath
     /\ \A k \in OpsOf(main', {"forkGitHubRepo", "createPR"}) :
          main'.repoPath # "" /\ main'.ops[k].repoUrl = main'.repoUrl]_vars

C30_Witness ==
  /\ main.pc = "end"
  /\ main.repoPath = "upstream"
  /\ main.ops[1].ok
  /\ main.writes # <<>>
  /\ OpsOf(main, {"pushBranch"}) # {}
  /\ OpsOf(main, {"createPR"}) # {}

====
